---- MODULE Spec2Model ----
(***************************************************************************)
(* rust-phf: immutable maps and sets whose lookup goes through a minimal   *)
(* perfect hash function computed once, ahead of query time.               *)
(*                                                                         *)
(* The read path (PhfMap, PhfOrderedMap, PhfSet, PhfOrderedSet and their   *)
(* iterators) is translated from src/phf/src/lib.rs and src/src/phf.rs.    *)
(* The table builder (the phf_mac crate) is not among the source files; it *)
(* is modelled from section 4.3 of the specification.                      *)
(*                                                                         *)
(* Indices, slots and displacements are 0-based as in the code; a sequence *)
(* s of the model holds the code's s[i] at s[i + 1].                       *)
(***************************************************************************)
EXTENDS Integers, Sequences, FiniteSets

\* ------------------------------------------------------------------------
\* Bounds of the model

\* Largest number of entries given to one construction.
MaxN == 3

\* Largest number of elements given to each of the two sets of a set query.
MaxSetN == 2

\* Largest number of entries given to a construction followed on its own.
MaxBuildN == 4

\* Largest table length the displacement is evaluated for.
MaxLen == 4097

\* ------------------------------------------------------------------------
\* Program constants

\* static LOG_MAX_SIZE: uint = 21
LOG_MAX_SIZE == 21

\* pub static MAX_SIZE: uint = 1 << LOG_MAX_SIZE
MAX_SIZE == 2 ^ LOG_MAX_SIZE

\* Load factor: target average bucket size (B = ceil(N / Lambda)).
Lambda == 2

\* Maximum number of full construction attempts.
MaxAttempts == 2

\* Seed of the first attempt.
FirstSeed == 1

\* The deterministic seed-advance rule.
NextSeed(s) == s + 1

\* ------------------------------------------------------------------------
\* Keys, values, digests

\* Key contents the callers use, as map keys and as query keys.
Keys == {"a", "b", "c", "d"}

\* Element contents the callers of the set queries use.
SetKeys == {"a", "b"}

\* The value of a set's entry: PhfSet<T> is PhfMap<T, ()>.
Unit == "()"

\* The value paired with the i-th entry (0-based) of a definition, as in
\* phf_map! { "hello" => 10, "world" => 11 }.
ValueAt(i) == 10 + i

\* A 64-bit keyed digest, written in 16-bit words, least significant first:
\* <<bits 0-15, bits 16-31, bits 32-47, bits 48-63>>.
WordBits == 16

WordSize == 2 ^ WordBits

\* The digests the keyed hash takes on the keys in use.  Their triples
\* (g, f1, f2) are (0, 0, 1), (1, 0, 0) and (MAX_SIZE - 1, 1, 0); bit 63 is
\* set in the last two.
Digests ==
    { <<0, 0, 1024, 0>>, <<1, 0, 0, 32768>>, <<65535, 63, 0, 32768>> }

\* The digests of a construction followed on its own, with the triples
\* (0, 0, 1), (1, 0, 0) and (2, 1, 1): two of them select the same bucket of
\* two and differ in f1.
BuildDigests ==
    { <<0, 0, 1024, 0>>, <<1, 0, 0, 32768>>, <<2, 32, 1024, 0>> }

VARIABLES
    pc,               \* where the program is: construction steps, then "built"
    orderPreserving,  \* builder input: ordered variant or plain variant
    input,            \* builder input: the entries, in definition order
    attempt,          \* number of the current construction attempt
    seed,             \* seed of the current attempt
    siphash,          \* SipHash under the current seed: key -> digest
    map,              \* builder: slot -> entry index placed there, or Free
    disps,            \* builder: displacement pair per bucket
    bi,               \* builder: position in the sorted bucket order
    table,            \* the emitted table, or NoTable
    last,             \* the caller's last query and its outcome
    iter,             \* the iterator the caller holds, or NoIter
    universe,         \* the key contents the callers use
    pending,          \* the definitions still to be built after this one
    other,            \* the table built before this one (with the digest
                      \* function of its seed), or NoTable
    threads           \* the operation each concurrent reader is in

vars == <<pc, orderPreserving, input, attempt, seed, siphash, map, disps, bi,
          table, last, iter, universe, pending, other, threads>>

Free == -1

NoTable == [built |-> FALSE]

NoQuery == [op |-> "none"]

NoIter == [kind |-> "none"]

\* ------------------------------------------------------------------------
\* Outcomes of an operation: an Option, a returned reference, or task failure

None == [kind |-> "None"]

Some(x) == [kind |-> "Some", val |-> x]

Return(x) == [kind |-> "Return", val |-> x]

Fail(msg) == [kind |-> "Fail", msg |-> msg]

DivideByZero == "attempted remainder with a divisor of zero"

OutOfBounds == "index out of bounds"

InvalidKey == "invalid key"

\* Option::is_some
IsSome(o) == IF o.kind = "Fail" THEN o ELSE Return(o.kind = "Some")

\* Option::expect
Expect(o, msg) ==
    CASE o.kind = "Some" -> Return(o.val)
      [] o.kind = "None" -> Fail(msg)
      [] OTHER -> o

\* ------------------------------------------------------------------------
\* Keyed hash and displacement

\* The word of a digest at position i, 0 beyond the most significant one.
WordAt(h, i) == IF i \in 1..Len(h) THEN h[i] ELSE 0

\* hash >> k on a 64-bit value.
ShiftRight(h, k) ==
    LET w == k \div WordBits
        r == k % WordBits
    IN  [i \in 1..Len(h) |->
            (WordAt(h, i + w) \div 2 ^ r)
                + (WordAt(h, i + w + 1) % 2 ^ r) * 2 ^ (WordBits - r)]

\* (x & mask) as uint, for a mask 2^k - 1 of more than one word and at most
\* two.
AndMask(x, mask) == x[1] + WordSize * (x[2] % ((mask + 1) \div WordSize))

\* hash(s, k1, k2): the digest split into three windows of LOG_MAX_SIZE bits.
\* h is the digest SipHasher::new_with_keys(k1, k2).hash(&s).
hash_top_unmasked(h) ==
    LET mask == MAX_SIZE - 1
        top == ShiftRight(h, 2 * LOG_MAX_SIZE)
    IN  [g  |-> AndMask(h, mask),
         f1 |-> AndMask(ShiftRight(h, LOG_MAX_SIZE), mask),
         f2 |-> top[1] + WordSize * top[2]]

hash(h) ==
    LET mask == MAX_SIZE - 1
    IN  [g  |-> AndMask(h, mask),
         f1 |-> AndMask(ShiftRight(h, LOG_MAX_SIZE), mask),
         f2 |-> AndMask(ShiftRight(h, 2 * LOG_MAX_SIZE), mask)]

\* hash on each digest a key of a table takes, worked out once.
HashOf == [h \in Digests \cup BuildDigests |-> hash(h)]

\* key.phf_hash(seed): the triple of the key under the table's seed.  sip is
\* the keyed digest function of that seed.
phf_hash(sip, key) == HashOf[sip[key]]

\* A u32 in 16-bit words, least significant first.
U32(lo, hi) == <<lo % WordSize, hi % WordSize>>

\* displace(f1, f2, d1, d2) = d2 + f1 * d1 + f2 for f1, f2, d1, d2 below
\* 2^21.  The generic variant (src/phf/src/lib.rs) holds the triple and the
\* pairs in u32, where the sum wraps at 2^32; on a 64-bit word it does not.
\* The product is formed from 11-bit halves, so that no partial result
\* leaves the range of the checker's integers.
displace_u64(f1, f2, d1, d2) ==
    LET half == 2 ^ 11
        p00 == (f1 % half) * (d1 % half)
        p01 == (f1 % half) * (d1 \div half) + (f1 \div half) * (d1 % half)
        p11 == (f1 \div half) * (d1 \div half)
        low == p00 + (p01 % 32) * half + d2 + f2
        high == (low \div WordSize) + (p01 \div 32) + p11 * 64
    IN  <<low % WordSize, high>>

displace(f1, f2, d1, d2) ==
    LET half == 2 ^ 11
        sum[a \in Nat, b \in Nat, c \in Nat, d \in Nat] ==
            LET p00 == (a % half) * (c % half)
                p01 == (a % half) * (c \div half) + (a \div half) * (c % half)
                p11 == (a \div half) * (c \div half)
                low == p00 + (p01 % 32) * half + d + b
                high == (low \div WordSize) + (p01 \div 32) + p11 * 64
            IN  U32(low, high)
    IN  sum[f1, f2, d1, d2]

\* x % (n as u32), as uint, for a table length n below 2^21.
Rem(x, n) ==
    LET rem[w \in Nat \X Nat] ==
            ((((((w[2] % n) * 256) % n) * 256) % n) + w[1]) % n
    IN  rem[x]

\* ------------------------------------------------------------------------
\* Table builder (specification section 4.3)

N == Len(input)

\* Step 1: B is proportional to N through the load factor.
NumBuckets(n) == (n + Lambda - 1) \div Lambda

\* Two entries compare equal as keys.
HasDuplicateKey(es) ==
    \E i, j \in 1..Len(es) : i < j /\ es[i].key = es[j].key

\* Step 3: the entries (as 0-based indices, ascending) whose g selects bucket b.
BucketKeys(es, sip, b) ==
    LET nb == NumBuckets(Len(es))
        RECURSIVE Collect(_)
        Collect(i) ==
            IF i > Len(es) THEN <<>>
            ELSE IF phf_hash(sip, es[i].key).g % nb = b
                 THEN <<i - 1>> \o Collect(i + 1)
                 ELSE Collect(i + 1)
    IN  Collect(1)

\* Step 4: the buckets by descending size (a stable sort: equal sizes keep
\* their index order).
SortedBuckets(es, sip) ==
    LET nb == NumBuckets(Len(es))
        size(b) == Len(BucketKeys(es, sip, b))
        rank(b) == Cardinality({c \in 0..(nb - 1) :
                       size(c) > size(b) \/ (size(c) = size(b) /\ c < b)})
    IN  [p \in 1..nb |-> CHOOSE b \in 0..(nb - 1) : rank(b) = p - 1]

\* The slot of each entry of a bucket under the candidate pair (d1, d2).
BucketSlots(es, sip, keys, d1, d2) ==
    LET slot[h \in [g : Nat, f1 : Nat, f2 : Nat]] ==
            Rem(displace(h.f1, h.f2, d1, d2), Len(es))
    IN  [j \in 1..Len(keys) |-> slot[phf_hash(sip, es[keys[j] + 1].key)]]

\* Step 6: every slot of the bucket is free and the slots are mutually
\* distinct within the bucket.
Fits(m, slots) ==
    /\ \A j \in 1..Len(slots) : m[slots[j] + 1] = Free
    /\ \A i, j \in 1..Len(slots) : i # j => slots[i] # slots[j]

\* The per-bucket search budget: d1 and d2 each range over [0, n).
SearchBudget(n) == n

\* The candidate pairs that fit, within the budget.
FittingPairs(es, sip, m, keys) ==
    LET budget == 0..(SearchBudget(Len(es)) - 1)
    IN  UNION {IF \E slots \in {BucketSlots(es, sip, keys, d[1], d[2])} :
                      Fits(m, slots)
               THEN {d} ELSE {} : d \in budget \X budget}

\* Scanning increasing (d1, d2): the first pair that fits.
FirstPair(ds) ==
    CHOOSE d \in ds : \A e \in ds :
        d[1] < e[1] \/ (d[1] = e[1] /\ d[2] <= e[2])

\* Mark the bucket's slots occupied, each by its entry.
Place(m, keys, slots) ==
    [s \in 1..Len(m) |->
        IF \E j \in 1..Len(slots) : slots[j] + 1 = s
        THEN keys[CHOOSE j \in 1..Len(slots) : slots[j] + 1 = s]
        ELSE m[s]]

\* The emitted table.  Plain variants hold the entries slot-indexed; ordered
\* variants keep the entries in definition order and add idxs (slotToEntry).
EmitTable(ordered, es, sd, ds, m) ==
    IF ordered
    THEN [built |-> TRUE, ordered |-> TRUE, key |-> sd, disps |-> ds,
          idxs |-> m, entries |-> es]
    ELSE [built |-> TRUE, ordered |-> FALSE, key |-> sd, disps |-> ds,
          idxs |-> <<>>,
          entries |-> [s \in 1..Len(es) |-> es[m[s] + 1]]]

\* ------------------------------------------------------------------------
\* Lookup engine and container facade (src/phf/src/lib.rs, src/src/phf.rs)

\* let (d1, d2) = self.disps[(g % (self.disps.len() as u32)) as uint]
bucket_disp_first(t, h) == t.disps[1]

bucket_disp(t, h) == t.disps[(h.g % Len(t.disps)) + 1]

\* PhfMap::get_entry (PhfMap::find_entry in phf.rs): a reference to the
\* entry of the key, as its 0-based position in t.entries.
get_entry_mod_disps(t, sip, key) ==
    LET h == phf_hash(sip, key)
    IN  IF Len(t.disps) = 0 THEN Fail(DivideByZero)
        ELSE LET d == bucket_disp(t, h)
                 i == Rem(displace(h.f1, h.f2, d[1], d[2]), Len(t.disps))
             IN  IF t.entries[i + 1].key = key THEN Some(i) ELSE None

get_entry(t, sip, key) ==
    LET h == phf_hash(sip, key)
    IN  IF Len(t.disps) = 0 THEN Fail(DivideByZero)
        ELSE LET d == bucket_disp(t, h)
             IN  IF Len(t.entries) = 0 THEN Fail(DivideByZero)
                 ELSE LET i == Rem(displace(h.f1, h.f2, d[1], d[2]),
                                   Len(t.entries))
                      IN  IF t.entries[i + 1].key = key THEN Some(i) ELSE None

\* PhfOrderedMap::find_entry: the slot goes through idxs.
find_entry_unchecked(t, sip, key) ==
    LET h == phf_hash(sip, key)
    IN  IF Len(t.disps) = 0 THEN Fail(DivideByZero)
        ELSE LET d == bucket_disp(t, h)
             IN  IF Len(t.idxs) = 0 THEN Fail(DivideByZero)
                 ELSE Some(t.idxs[Rem(displace(h.f1, h.f2, d[1], d[2]),
                                      Len(t.idxs)) + 1])

find_entry_direct(t, sip, key) ==
    LET h == phf_hash(sip, key)
    IN  IF Len(t.disps) = 0 THEN Fail(DivideByZero)
        ELSE LET d == bucket_disp(t, h)
             IN  IF Len(t.idxs) = 0 THEN Fail(DivideByZero)
                 ELSE LET idx == Rem(displace(h.f1, h.f2, d[1], d[2]),
                                     Len(t.idxs))
                      IN  IF idx >= Len(t.entries) THEN Fail(OutOfBounds)
                          ELSE IF t.entries[idx + 1].key = key
                               THEN Some(idx) ELSE None

find_entry(t, sip, key) ==
    LET h == phf_hash(sip, key)
    IN  IF Len(t.disps) = 0 THEN Fail(DivideByZero)
        ELSE LET d == bucket_disp(t, h)
             IN  IF Len(t.idxs) = 0 THEN Fail(DivideByZero)
                 ELSE LET idx == t.idxs[Rem(displace(h.f1, h.f2, d[1], d[2]),
                                            Len(t.idxs)) + 1]
                      IN  IF idx >= Len(t.entries) THEN Fail(OutOfBounds)
                          ELSE IF t.entries[idx + 1].key = key
                               THEN Some(idx) ELSE None

\* The entry lookup of the table's variant.
lookup(t, sip, key) ==
    IF t.ordered THEN find_entry(t, sip, key) ELSE get_entry(t, sip, key)

\* Map::find: get_entry(..).map(|e| { let &(_, ref v) = e; v }); a failed
\* task stays failed.
find(t, sip, key) ==
    LET e == lookup(t, sip, key)
    IN  IF e.kind = "Some" THEN Some(t.entries[e.val + 1].val) ELSE e

\* find_key: |e| { let &(ref k, _) = e; k }, a reference into t.entries.
find_key_callers(t, sip, key) ==
    LET e == lookup(t, sip, key)
    IN  IF e.kind = "Some" THEN Some([at |-> <<"caller">>, s |-> key]) ELSE e

find_key(t, sip, key) ==
    LET e == lookup(t, sip, key)
    IN  IF e.kind = "Some"
        THEN Some([at |-> <<"entries", e.val>>, s |-> t.entries[e.val + 1].key])
        ELSE e

\* Map::contains_key, and Set::contains through it: find(key).is_some()
contains_key(t, sip, key) == IsSome(find(t, sip, key))

\* Index::index: self.find(k).expect("invalid key")
index(t, sip, key) == Expect(find(t, sip, key), InvalidKey)

\* Collection::len: self.entries.len()
len_disps(t) == Len(t.disps)

len(t) == Len(t.entries)

\* ------------------------------------------------------------------------
\* Iterators (slice::Items over t.entries, and the adaptors over it)

\* entries(): PhfMapEntries { iter: self.entries.iter() }; keys() and
\* values() map it.  front and back are 0-based positions in t.entries.
NewIter(t, kind) ==
    [kind |-> kind, front |-> 0, back |-> Len(t.entries),
     yielded |-> <<>>, out |-> NoQuery]

\* What an iterator of the kind yields for the entry at position i.
Item_by_slot(t, kind, i) ==
    LET j == IF t.ordered THEN t.idxs[i + 1] ELSE i
    IN  CASE kind = "entries" -> t.entries[j + 1]
          [] kind = "keys"    -> t.entries[j + 1].key
          [] kind = "values"  -> t.entries[j + 1].val

Item(t, kind, i) ==
    CASE kind = "entries" -> t.entries[i + 1]
      [] kind = "keys"    -> t.entries[i + 1].key
      [] kind = "values"  -> t.entries[i + 1].val

\* Iterator::next
next_restarting(t, it) ==
    IF it.front = it.back
    THEN [it EXCEPT !.front = 0, !.out = None]
    ELSE [it EXCEPT !.front = it.front + 1,
                    !.yielded = Append(it.yielded, Item(t, it.kind, it.front)),
                    !.out = Some(Item(t, it.kind, it.front))]

next(t, it) ==
    IF it.front = it.back
    THEN [it EXCEPT !.out = None]
    ELSE [it EXCEPT !.front = it.front + 1,
                    !.yielded = Append(it.yielded, Item(t, it.kind, it.front)),
                    !.out = Some(Item(t, it.kind, it.front))]

\* Iterator::size_hint
size_hint(it) == it.back - it.front

\* DoubleEndedIterator::next_back
next_back_from_front(t, it) ==
    IF it.front = it.back
    THEN [it EXCEPT !.out = None]
    ELSE [it EXCEPT !.front = it.front + 1,
                    !.yielded = Append(it.yielded, Item(t, it.kind, it.front)),
                    !.out = Some(Item(t, it.kind, it.front))]

next_back(t, it) ==
    IF it.front = it.back
    THEN [it EXCEPT !.out = None]
    ELSE [it EXCEPT !.back = it.back - 1,
                    !.yielded = Append(it.yielded,
                                       Item(t, it.kind, it.back - 1)),
                    !.out = Some(Item(t, it.kind, it.back - 1))]

\* RandomAccessIterator::indexable: the exact size_hint of the slice iterator
indexable(it) == it.back - it.front

\* RandomAccessIterator::idx (&mut self): the iterator after the call and
\* the element returned.
idx(t, it, i) ==
    [it  |-> it,
     out |-> IF i < indexable(it)
             THEN Some(Item(t, it.kind, it.front + i))
             ELSE None]

\* A full forward iteration: next until it returns None.
RECURSIVE Drain(_, _)
Drain(t, it) ==
    LET nx == next(t, it)
    IN  IF nx.out = None THEN nx.yielded ELSE Drain(t, nx)

\* ------------------------------------------------------------------------
\* Set queries (Set for PhfSet, Set for PhfOrderedSet)

\* self.iter(): the keys of the set's map, in iteration order.
Elements(a) == Drain(a, NewIter(a, "keys"))

\* Iterator::any(|value| other.contains(value)): probes the elements in
\* order and stops at the first one found; a probe that fails, fails the call.
RECURSIVE any_contained(_, _, _, _)
any_contained(elems, b, sb, i) ==
    IF i > Len(elems) THEN Return(FALSE)
    ELSE LET c == contains_key(b, sb, elems[i])
         IN  IF c.kind = "Fail" THEN c
             ELSE IF c.val THEN Return(TRUE)
             ELSE any_contained(elems, b, sb, i + 1)

\* Iterator::all(|value| other.contains(value)): stops at the first element
\* not found.
RECURSIVE all_contained(_, _, _, _)
all_contained(elems, b, sb, i) ==
    IF i > Len(elems) THEN Return(TRUE)
    ELSE LET c == contains_key(b, sb, elems[i])
         IN  IF c.kind = "Fail" THEN c
             ELSE IF ~c.val THEN Return(FALSE)
             ELSE all_contained(elems, b, sb, i + 1)

\* is_disjoint: !self.iter().any(|value| other.contains(value))
is_disjoint(a, b, sb) ==
    LET r == any_contained(Elements(a), b, sb, 1)
    IN  IF r.kind = "Fail" THEN r ELSE Return(~r.val)

\* is_subset: self.iter().all(|value| other.contains(value))
is_subset(a, b, sb) == all_contained(Elements(a), b, sb, 1)

\* ------------------------------------------------------------------------
\* The state machine

\* The definitions a caller can write: up to MaxN entries, the i-th with
\* value ValueAt(i); keys may repeat.
Definitions ==
    UNION {[1..n -> Keys] : n \in 0..MaxN}

EntriesOf(ks) == [i \in 1..Len(ks) |-> [key |-> ks[i], val |-> ValueAt(i - 1)]]

\* The set definitions a caller can write: up to MaxSetN elements.
SetDefinitions ==
    UNION {[1..n -> SetKeys] : n \in 0..MaxSetN}

SetEntriesOf(ks) == [i \in 1..Len(ks) |-> [key |-> ks[i], val |-> Unit]]

\* Two sets of the same variant are defined, and built one after the other.
InitSet ==
    /\ pc = "start"
    /\ orderPreserving \in BOOLEAN
    /\ \E ks \in SetDefinitions : input = SetEntriesOf(ks)
    /\ \E ks \in SetDefinitions : pending = <<SetEntriesOf(ks)>>
    /\ attempt = 0
    /\ seed = 0
    /\ siphash = <<>>
    /\ map = <<>>
    /\ disps = <<>>
    /\ bi = 0
    /\ table = NoTable
    /\ last = NoQuery
    /\ iter = NoIter
    /\ universe = SetKeys
    /\ other = NoTable
    /\ threads = <<>>

Init ==
    /\ pc = "start"
    /\ orderPreserving \in BOOLEAN
    /\ \E ks \in Definitions : input = EntriesOf(ks)
    /\ attempt = 0
    /\ seed = 0
    /\ siphash = <<>>
    /\ map = <<>>
    /\ disps = <<>>
    /\ bi = 0
    /\ table = NoTable
    /\ last = NoQuery
    /\ iter = NoIter
    /\ universe = Keys
    /\ pending = <<>>
    /\ other = NoTable
    /\ threads = <<>>

\* The duplicate check, before any hashing.
Start_unchecked ==
    /\ pc = "start"
    /\ pc' = "hash"
    /\ attempt' = 1
    /\ seed' = FirstSeed
    /\ UNCHANGED <<orderPreserving, input, siphash, map, disps, bi, table, last,
                   iter, universe, pending, other, threads>>

Start ==
    /\ pc = "start"
    /\ IF HasDuplicateKey(input)
       THEN /\ pc' = "DuplicateKey"
            /\ UNCHANGED <<attempt, seed>>
       ELSE /\ pc' = "hash"
            /\ attempt' = 1
            /\ seed' = FirstSeed
    /\ UNCHANGED <<orderPreserving, input, siphash, map, disps, bi, table, last,
                   iter, universe, pending, other, threads>>

\* Steps 2 to 5: hash every entry under the attempt's seed; all slots free,
\* no displacement pair recorded.
\* ds: the digests the keyed hash takes on the keys in use.
HashEntriesFrom_keeping(ds) ==
    /\ pc = "hash"
    /\ siphash' \in [universe -> ds]
    /\ (other.built /\ other.key = seed) => siphash' = other.sip
    /\ map' = IF attempt = 1 THEN [s \in 1..N |-> Free] ELSE map
    /\ disps' = IF attempt = 1 THEN [b \in 1..NumBuckets(N) |-> <<0, 0>>]
                 ELSE disps
    /\ bi' = 1
    /\ pc' = "place"
    /\ UNCHANGED <<orderPreserving, input, attempt, seed, table, last, iter,
                   universe, pending, other, threads>>

HashEntriesFrom(ds) ==
    /\ pc = "hash"
    /\ siphash' \in [universe -> ds]
    /\ (other.built /\ other.key = seed) => siphash' = other.sip
    /\ map' = [s \in 1..N |-> Free]
    /\ disps' = [b \in 1..NumBuckets(N) |-> <<0, 0>>]
    /\ bi' = 1
    /\ pc' = "place"
    /\ UNCHANGED <<orderPreserving, input, attempt, seed, table, last, iter,
                   universe, pending, other, threads>>

HashEntries == HashEntriesFrom(Digests)

HashEntriesBuild == HashEntriesFrom(BuildDigests)

\* Step 6 for the next bucket of the sorted order, or step 7/8 when the
\* bucket exhausts its budget.
PlaceBucket_no_retry ==
    /\ pc = "place"
    /\ bi <= NumBuckets(N)
    /\ \E b \in {SortedBuckets(input, siphash)[bi]} :
       \E keys \in {BucketKeys(input, siphash, b)} :
       \E fit \in {FittingPairs(input, siphash, map, keys)} :
           IF fit # {}
           THEN \E d \in {FirstPair(fit)} :
                \E slots \in {BucketSlots(input, siphash, keys, d[1], d[2])} :
                    /\ map' = Place(map, keys, slots)
                    /\ disps' = [disps EXCEPT ![b + 1] = d]
                    /\ bi' = bi + 1
                    /\ UNCHANGED <<pc, attempt, seed>>
           ELSE /\ pc' = "ConstructionFailed"
                /\ UNCHANGED <<attempt, seed, map, disps, bi>>
    /\ UNCHANGED <<orderPreserving, input, siphash, table, last, iter,
                   universe, pending, other, threads>>

PlaceBucket ==
    /\ pc = "place"
    /\ bi <= NumBuckets(N)
    /\ \E b \in {SortedBuckets(input, siphash)[bi]} :
       \E keys \in {BucketKeys(input, siphash, b)} :
       \E fit \in {FittingPairs(input, siphash, map, keys)} :
           IF fit # {}
           THEN \E d \in {FirstPair(fit)} :
                \E slots \in {BucketSlots(input, siphash, keys, d[1], d[2])} :
                    /\ map' = Place(map, keys, slots)
                    /\ disps' = [disps EXCEPT ![b + 1] = d]
                    /\ bi' = bi + 1
                    /\ UNCHANGED <<pc, attempt, seed>>
           ELSE /\ IF attempt < MaxAttempts
                   THEN /\ pc' = "hash"
                        /\ attempt' = attempt + 1
                        /\ seed' = NextSeed(seed)
                   ELSE /\ pc' = "ConstructionFailed"
                        /\ UNCHANGED <<attempt, seed>>
                /\ UNCHANGED <<map, disps, bi>>
    /\ UNCHANGED <<orderPreserving, input, siphash, table, last, iter,
                   universe, pending, other, threads>>

\* Every bucket is placed: the table is emitted.
Emit ==
    /\ pc = "place"
    /\ bi > NumBuckets(N)
    /\ table' = EmitTable(orderPreserving, input, seed, disps, map)
    /\ pc' = "built"
    /\ UNCHANGED <<orderPreserving, input, attempt, seed, siphash, map, disps,
                   bi, last, iter, universe, pending, other, threads>>

\* The frame of every read operation: &self, nothing is written.
ReadOnly ==
    UNCHANGED <<pc, orderPreserving, input, attempt, seed, siphash, map,
                disps, bi, table, universe, pending, other, threads>>

\* A query hands its outcome to the caller.
Query(op, key, out) ==
    /\ last' = [op |-> op, key |-> key, out |-> out]
    /\ iter' = NoIter
    /\ ReadOnly

Find ==
    /\ pc = "built"
    /\ \E k \in universe : Query("find", k, find(table, siphash, k))

ContainsKey ==
    /\ pc = "built"
    /\ \E k \in universe : Query("contains_key", k, contains_key(table, siphash, k))

FindKey ==
    /\ pc = "built"
    /\ \E k \in universe : Query("find_key", k, find_key(table, siphash, k))

Index ==
    /\ pc = "built"
    /\ \E k \in universe : Query("index", k, index(table, siphash, k))

Length ==
    /\ pc = "built"
    /\ Query("len", "", len(table))

\* entries(), keys(), values() (and the sets' iter(), which is keys()):
\* a fresh iterator each call.
Entries ==
    /\ pc = "built"
    /\ iter' = NewIter(table, "entries")
    /\ last' = NoQuery
    /\ ReadOnly

KeysIter ==
    /\ pc = "built"
    /\ iter' = NewIter(table, "keys")
    /\ last' = NoQuery
    /\ ReadOnly

Values ==
    /\ pc = "built"
    /\ iter' = NewIter(table, "values")
    /\ last' = NoQuery
    /\ ReadOnly

\* next() on the iterator the caller holds.
IterNext_draining ==
    /\ pc = "built"
    /\ iter # NoIter
    /\ iter.front # iter.back
    /\ iter' = [iter EXCEPT !.out = Some(Item(table, iter.kind, 0)),
                            !.back = iter.back - 1,
                            !.yielded = Append(iter.yielded,
                                               Item(table, iter.kind, 0))]
    /\ table' = [table EXCEPT !.entries = Tail(table.entries)]
    /\ last' = NoQuery
    /\ UNCHANGED <<pc, orderPreserving, input, attempt, seed, siphash, map,
                   disps, bi, universe, pending, other, threads>>

IterNext ==
    /\ pc = "built"
    /\ iter # NoIter
    /\ iter' = next(table, iter)
    /\ last' = NoQuery
    /\ ReadOnly

\* next_back() on the iterator the caller holds.
IterNextBack ==
    /\ pc = "built"
    /\ iter # NoIter
    /\ iter' = next_back(table, iter)
    /\ last' = NoQuery
    /\ ReadOnly

\* size_hint() on the iterator the caller holds.
IterSizeHint ==
    /\ pc = "built"
    /\ iter # NoIter
    /\ last' = [op |-> "size_hint", key |-> "", out |-> size_hint(iter)]
    /\ iter' = iter
    /\ ReadOnly

\* indexable() on an iterator of an ordered table.
IterIndexable ==
    /\ pc = "built"
    /\ table.ordered
    /\ iter # NoIter
    /\ last' = [op |-> "indexable", key |-> "", out |-> indexable(iter)]
    /\ iter' = iter
    /\ ReadOnly

\* idx(i) on an iterator of an ordered table, for an index up to one
\* past the number of entries.
IterIdx ==
    /\ pc = "built"
    /\ table.ordered
    /\ iter # NoIter
    /\ \E i \in 0..(Len(table.entries) + 1) :
           \E r \in {idx(table, iter, i)} :
               /\ iter' = r.it
               /\ last' = [op |-> "idx", key |-> i, out |-> r.out]
    /\ ReadOnly

\* The caller keeps the table just built and has the next definition built:
\* a fresh construction, from the first seed.
BuildOther ==
    /\ pc = "built"
    /\ pending # <<>>
    /\ other' = [built |-> TRUE, ordered |-> table.ordered, key |-> table.key,
                 disps |-> table.disps, idxs |-> table.idxs,
                 entries |-> table.entries, sip |-> siphash]
    /\ input' = Head(pending)
    /\ pending' = Tail(pending)
    /\ pc' = "start"
    /\ table' = NoTable
    /\ attempt' = 0
    /\ seed' = 0
    /\ siphash' = <<>>
    /\ map' = <<>>
    /\ disps' = <<>>
    /\ bi' = 0
    /\ last' = NoQuery
    /\ iter' = NoIter
    /\ UNCHANGED <<orderPreserving, universe, threads>>

\* The two sets of a set query, in either role.
SetPairs ==
    { [dir |-> "table,other", a |-> table, b |-> other, sb |-> other.sip],
      [dir |-> "other,table", a |-> other, b |-> table, sb |-> siphash] }

IsDisjoint ==
    /\ pc = "built"
    /\ other.built
    /\ \E p \in SetPairs : Query("is_disjoint", p.dir, is_disjoint(p.a, p.b, p.sb))

IsSubset ==
    /\ pc = "built"
    /\ other.built
    /\ \E p \in SetPairs : Query("is_subset", p.dir, is_subset(p.a, p.b, p.sb))

Next ==
    \/ Start
    \/ HashEntries
    \/ PlaceBucket
    \/ Emit
    \/ Find
    \/ ContainsKey
    \/ FindKey
    \/ Index
    \/ Length
    \/ Entries
    \/ KeysIter
    \/ Values
    \/ IterNext

Spec == Init /\ [][Next]_vars

NextSet ==
    \/ Next
    \/ BuildOther
    \/ IsDisjoint
    \/ IsSubset

SpecSet == InitSet /\ [][NextSet]_vars

\* Traversal alone: a table is built, then iterators are made and stepped
\* from either end; the ordered ones are indexed as well.  Traversal does
\* not look at a key's contents: three key contents are enough, and the keys
\* in use are the keys of the definition.
IterKeys == {"a", "b", "c"}

IterDefinitions ==
    UNION {[1..n -> IterKeys] : n \in 0..MaxN}

InitIter ==
    /\ pc = "start"
    /\ orderPreserving \in BOOLEAN
    /\ \E ks \in IterDefinitions : input = EntriesOf(ks)
    /\ attempt = 0
    /\ seed = 0
    /\ siphash = <<>>
    /\ map = <<>>
    /\ disps = <<>>
    /\ bi = 0
    /\ table = NoTable
    /\ last = NoQuery
    /\ iter = NoIter
    /\ universe = {input[i].key : i \in 1..Len(input)}
    /\ pending = <<>>
    /\ other = NoTable
    /\ threads = <<>>

NextIter ==
    \/ Start
    \/ HashEntries
    \/ PlaceBucket
    \/ Emit
    \/ Entries
    \/ KeysIter
    \/ Values
    \/ IterNext
    \/ IterNextBack
    \/ IterSizeHint
    \/ IterIndexable
    \/ IterIdx

SpecIter == InitIter /\ [][NextIter]_vars

\* Construction alone.  It is single-threaded and synchronous, with no
\* suspension point: a construction step that can be taken is taken.
\* The builder sees of a key its digest and whether it equals another key,
\* so the definitions are taken up to a renaming of the keys: the first key
\* is "a", and a key that differs from all before it is the next one unused.
KeyOrder == <<"a", "b", "c", "d">>

FirstUse(ks) ==
    \A i \in 1..Len(ks) :
        \E j \in 1..(Cardinality({ks[m] : m \in 1..(i - 1)}) + 1) :
            j <= Len(KeyOrder) /\ ks[i] = KeyOrder[j]

BuildDefinitions ==
    UNION {{ks \in [1..n -> Keys] : FirstUse(ks)} : n \in 0..MaxBuildN}

\* The keys in use are the keys of the definition: nothing is queried.
InitBuild ==
    /\ pc = "start"
    /\ orderPreserving \in BOOLEAN
    /\ \E ks \in BuildDefinitions : input = EntriesOf(ks)
    /\ attempt = 0
    /\ seed = 0
    /\ siphash = <<>>
    /\ map = <<>>
    /\ disps = <<>>
    /\ bi = 0
    /\ table = NoTable
    /\ last = NoQuery
    /\ iter = NoIter
    /\ universe = {input[i].key : i \in 1..Len(input)}
    /\ pending = <<>>
    /\ other = NoTable
    /\ threads = <<>>

NextBuild ==
    \/ Start
    \/ HashEntriesBuild
    \/ PlaceBucket
    \/ Emit

SpecBuild == InitBuild /\ [][NextBuild]_vars /\ WF_vars(NextBuild)

\* ------------------------------------------------------------------------
\* Concurrent readers of one built set.  Every reader borrows the table
\* (&self) and keeps its locals on its own stack; a step is one read of a
\* field of the table.

\* Number of reader threads.
NumThreads == 2

Idle == [op |-> "idle"]

\* The reader is between two calls.
AtRest(th) ==
    \/ th.op = "idle"
    \/ th.op \in {"contains", "is_subset", "is_disjoint"} /\ th.step = "done"
    \/ th.op = "iter"

\* get_entry / find_entry after (d1, d2) is read: the entry read and the key
\* comparison, then find's and contains_key's view of it.
contains_after_disp(t, key, h, d) ==
    LET n == IF t.ordered THEN Len(t.idxs) ELSE Len(t.entries)
    IN  IF n = 0 THEN Fail(DivideByZero)
        ELSE LET slot == Rem(displace(h.f1, h.f2, d[1], d[2]), n)
                 pos == IF t.ordered THEN t.idxs[slot + 1] ELSE slot
             IN  IF pos >= Len(t.entries) THEN Fail(OutOfBounds)
                 ELSE Return(t.entries[pos + 1].key = key)

\* Set::contains, first statement: let (g, f1, f2) = key.phf_hash(self.key).
\* The triple is a local of the call.
ThreadContains_shared_triple(t) ==
    /\ pc = "built"
    /\ AtRest(threads[t])
    /\ \E k \in universe :
           threads' = [u \in DOMAIN threads |->
               IF u = t
               THEN [op |-> "contains", key |-> k, step |-> "hashed",
                     h |-> phf_hash(siphash, k)]
               ELSE IF threads[u].op = "contains" /\ threads[u].step = "hashed"
                    THEN [threads[u] EXCEPT !.h = phf_hash(siphash, k)]
                    ELSE threads[u]]
    /\ UNCHANGED <<pc, orderPreserving, input, attempt, seed, siphash, map,
                   disps, bi, table, last, iter, universe, pending, other>>

ThreadContains(t) ==
    /\ pc = "built"
    /\ AtRest(threads[t])
    /\ \E k \in universe :
           threads' = [threads EXCEPT ![t] =
               [op |-> "contains", key |-> k, step |-> "hashed",
                h |-> phf_hash(siphash, k)]]
    /\ UNCHANGED <<pc, orderPreserving, input, attempt, seed, siphash, map,
                   disps, bi, table, last, iter, universe, pending, other>>

\* Second statement: let (d1, d2) = self.disps[g % self.disps.len()].
ThreadReadDisps(t) ==
    /\ pc = "built"
    /\ threads[t].op = "contains"
    /\ threads[t].step = "hashed"
    /\ threads' = [threads EXCEPT ![t] =
           IF Len(table.disps) = 0
           THEN [op |-> "contains", key |-> threads[t].key, step |-> "done",
                 out |-> Fail(DivideByZero)]
           ELSE [op |-> "contains", key |-> threads[t].key,
                 step |-> "displaced", h |-> threads[t].h,
                 d |-> bucket_disp(table, threads[t].h)]]
    /\ UNCHANGED <<pc, orderPreserving, input, attempt, seed, siphash, map,
                   disps, bi, table, last, iter, universe, pending, other>>

\* Third statement to the return: the entry is read and compared.
ThreadReadEntry(t) ==
    /\ pc = "built"
    /\ threads[t].op = "contains"
    /\ threads[t].step = "displaced"
    /\ threads' = [threads EXCEPT ![t] =
           [op |-> "contains", key |-> threads[t].key, step |-> "done",
            out |-> contains_after_disp(table, threads[t].key, threads[t].h,
                                        threads[t].d)]]
    /\ UNCHANGED <<pc, orderPreserving, input, attempt, seed, siphash, map,
                   disps, bi, table, last, iter, universe, pending, other>>

\* PhfSet::iter: the reader's own iterator over the table.
ThreadIter(t) ==
    /\ pc = "built"
    /\ AtRest(threads[t])
    /\ threads' = [threads EXCEPT ![t] =
           [op |-> "iter", it |-> NewIter(table, "keys")]]
    /\ UNCHANGED <<pc, orderPreserving, input, attempt, seed, siphash, map,
                   disps, bi, table, last, iter, universe, pending, other>>

ThreadNext(t) ==
    /\ pc = "built"
    /\ threads[t].op = "iter"
    /\ threads' = [threads EXCEPT ![t] =
           [op |-> "iter", it |-> next(table, threads[t].it)]]
    /\ UNCHANGED <<pc, orderPreserving, input, attempt, seed, siphash, map,
                   disps, bi, table, last, iter, universe, pending, other>>

\* is_subset(&self) and is_disjoint(&self) of the table with itself: i is
\* the position of self.iter().
ThreadSetQuery(t) ==
    /\ pc = "built"
    /\ AtRest(threads[t])
    /\ \E q \in {"is_subset", "is_disjoint"} :
           threads' = [threads EXCEPT ![t] =
               [op |-> q, step |-> "probing", i |-> 0]]
    /\ UNCHANGED <<pc, orderPreserving, input, attempt, seed, siphash, map,
                   disps, bi, table, last, iter, universe, pending, other>>

\* One turn of all / any: the next element is read and probed.
ThreadProbe(t) ==
    /\ pc = "built"
    /\ threads[t].op \in {"is_subset", "is_disjoint"}
    /\ threads[t].step = "probing"
    /\ LET q == threads[t].op
           i == threads[t].i
           done(r) == [op |-> q, step |-> "done", out |-> r]
       IN  threads' = [threads EXCEPT ![t] =
               IF i = Len(table.entries)
               THEN done(Return(TRUE))
               ELSE LET c == contains_key(table, siphash,
                                          Item(table, "keys", i))
                    IN  IF c.kind = "Fail" THEN done(c)
                        ELSE IF q = "is_subset" /\ ~c.val
                             THEN done(Return(FALSE))
                        ELSE IF q = "is_disjoint" /\ c.val
                             THEN done(Return(FALSE))
                        ELSE [op |-> q, step |-> "probing", i |-> i + 1]]
    /\ UNCHANGED <<pc, orderPreserving, input, attempt, seed, siphash, map,
                   disps, bi, table, last, iter, universe, pending, other>>

\* One set is defined and built; then the readers run, in any interleaving.
InitConc ==
    /\ pc = "start"
    /\ orderPreserving \in BOOLEAN
    /\ \E ks \in SetDefinitions : input = SetEntriesOf(ks)
    /\ attempt = 0
    /\ seed = 0
    /\ siphash = <<>>
    /\ map = <<>>
    /\ disps = <<>>
    /\ bi = 0
    /\ table = NoTable
    /\ last = NoQuery
    /\ iter = NoIter
    /\ universe = SetKeys
    /\ pending = <<>>
    /\ other = NoTable
    /\ threads = [t \in 1..NumThreads |-> Idle]

NextConc ==
    \/ Start
    \/ HashEntries
    \/ PlaceBucket
    \/ Emit
    \/ \E t \in 1..NumThreads :
           \/ ThreadContains(t)
           \/ ThreadReadDisps(t)
           \/ ThreadReadEntry(t)
           \/ ThreadIter(t)
           \/ ThreadNext(t)
           \/ ThreadSetQuery(t)
           \/ ThreadProbe(t)

SpecConc == InitConc /\ [][NextConc]_vars

\* ------------------------------------------------------------------------
\* The keyed hash on its own

\* Words with the bits next to the window borders (bits 20/21, 41/42 and
\* 62/63 of the digest) clear and set.
EdgeWords == {0, 16, 32, 512, 1024, 16384, 32768, 65535}

\* A key is hashed under a seed whose digest of the key is any combination
\* of the edge words.
InitHash ==
    /\ pc = "hashing"
    /\ orderPreserving = FALSE
    /\ input = <<>>
    /\ attempt = 0
    /\ seed = FirstSeed
    /\ universe = {"a"}
    /\ siphash \in [universe -> [1..4 -> EdgeWords]]
    /\ map = <<>>
    /\ disps = <<>>
    /\ bi = 0
    /\ table = NoTable
    /\ last = NoQuery
    /\ iter = NoIter
    /\ pending = <<>>
    /\ other = NoTable
    /\ threads = <<>>

\* key.phf_hash(seed), called once and called again.
HashKey ==
    /\ pc = "hashing"
    /\ \E k \in universe :
           last' = [op |-> "phf_hash", key |-> k,
                    out |-> hash(siphash[k]),
                    calls |-> IF last.op = "phf_hash" THEN 2 ELSE 1]
    /\ UNCHANGED <<pc, orderPreserving, input, attempt, seed, siphash, map,
                   disps, bi, table, iter, universe, pending, other, threads>>

NextHash == HashKey

SpecHash == InitHash /\ [][NextHash]_vars

\* ------------------------------------------------------------------------
\* The slot computation on its own

\* Table lengths: the smallest, a small one, and two beyond 2^11.
TableLens == {1, 3, 2 ^ 11 + 1, MaxLen}

\* Displacements a bucket of a table of n entries can be given: the search
\* scans d1 and d2 over [0, n).
EdgeDisps(n) == {d \in {0, 1, 2 ^ 11 - 1, 2 ^ 11, n - 1} : d < n}

\* Components of a hash triple: the ends and the middle of [0, MAX_SIZE).
EdgeHashes == {0, 1, MAX_SIZE \div 2, MAX_SIZE - 2, MAX_SIZE - 1}

\* A table of n entries, of which the bucket looked at has the pair (d1, d2);
\* the entries are not spelled out, the slot depends on their number only.
InitDisplace ==
    /\ pc = "displacing"
    /\ orderPreserving = FALSE
    /\ input = <<>>
    /\ attempt = 0
    /\ seed = FirstSeed
    /\ universe = {}
    /\ siphash = <<>>
    /\ map = <<>>
    /\ disps = <<>>
    /\ bi = 0
    /\ \E n \in TableLens : \E d1, d2 \in EdgeDisps(n) :
           table = [disps |-> <<<<d1, d2>>>>, len |-> n]
    /\ last = NoQuery
    /\ iter = NoIter
    /\ pending = <<>>
    /\ other = NoTable
    /\ threads = <<>>

\* The slot of get_entry for a key with the triple (_, f1, f2):
\* (displace(f1, f2, d1, d2) % (self.entries.len() as u32)) as uint
Displace ==
    /\ pc = "displacing"
    /\ \E f1, f2 \in EdgeHashes :
           last' = [op |-> "slot", f1 |-> f1, f2 |-> f2,
                    out |-> Rem(displace(f1, f2, table.disps[1][1],
                                         table.disps[1][2]),
                                table.len)]
    /\ UNCHANGED <<pc, orderPreserving, input, attempt, seed, siphash, map,
                   disps, bi, table, iter, universe, pending, other, threads>>

NextDisplace == Displace

SpecDisplace == InitDisplace /\ [][NextDisplace]_vars

\* ------------------------------------------------------------------------
\* Properties

Built == pc = "built"

\* The keys given at construction.
InputKeys == {input[i].key : i \in 1..Len(input)}

\* The slot the lookup path computes for a key: displace(f1, f2, d1, d2)
\* mod N with (d1, d2) = disps[g mod B].
SlotOf(t, sip, key) ==
    LET h == phf_hash(sip, key)
        d == bucket_disp(t, h)
    IN  Rem(displace(h.f1, h.f2, d[1], d[2]), Len(t.entries))

\* C1 (round trip): in every table built from entries with pairwise distinct
\* keys, plain or ordered, find of each constructed key returns present with
\* exactly the value paired with that key in the input.
C1_RoundTrip ==
    Built =>
        \A i \in 1..Len(input) :
            /\ find(table, siphash, input[i].key) = Some(input[i].val)
            /\ (last.op = "find" /\ last.key = input[i].key)
                   => last.out = Some(input[i].val)

C1_Witness ==
    /\ Built
    /\ Len(input) = 3
    /\ Len(table.disps) = 2
    /\ table.disps[1] # table.disps[2]
    /\ last.op = "find"
    /\ last.key = input[3].key
    /\ last.out = Some(input[3].val)

\* C2 (negative lookup): in every built table with at least one entry, a
\* query key equal to no constructed key is absent for find and find_key and
\* false for contains_key, although its slot holds a constructed key.
C2_NegativeLookup ==
    (Built /\ Len(input) >= 1) =>
        \A k \in universe \ InputKeys :
            /\ find(table, siphash, k) = None
            /\ find_key(table, siphash, k) = None
            /\ contains_key(table, siphash, k) = Return(FALSE)
            /\ (last.op \in {"find", "find_key"} /\ last.key = k)
                   => last.out = None
            /\ (last.op = "contains_key" /\ last.key = k)
                   => last.out = Return(FALSE)

C2_Witness ==
    /\ Built
    /\ orderPreserving
    /\ Len(input) = 3
    /\ last.op = "find"
    /\ last.key \notin InputKeys
    /\ SlotOf(table, siphash, last.key) \in 0..(Len(input) - 1)
    /\ last.out = None

\* C3 (query totality), as claimed: on every built table, the empty one
\* included, find, contains_key and find_key complete for every key and
\* return absent or false instead of failing.
C3_QueryTotality ==
    (Built /\ last.op \in {"find", "find_key", "contains_key"}) =>
        /\ last.out.kind # "Fail"
        /\ Len(table.entries) = 0 =>
               last.out = IF last.op = "contains_key" THEN Return(FALSE) ELSE None

\* C4 (indexed subscript), as claimed: on every built map, index of a
\* present key returns the value find returns, and index of an absent key
\* fails with "invalid key".
C4_IndexSubscript ==
    (Built /\ last.op = "index") =>
        IF last.key \in InputKeys
        THEN /\ find(table, siphash, last.key).kind = "Some"
             /\ last.out = Return(find(table, siphash, last.key).val)
        ELSE last.out = Fail(InvalidKey)

\* The fields of a table: seed, displacements, entries, slotToEntry.
Fields(t) == <<t.key, t.disps, t.entries, t.idxs>>

\* C5 (read-only table): any step taken on a built table (find,
\* contains_key, find_key, index also when it fails with "invalid key", len,
\* the iterators, is_disjoint, is_subset) leaves the table's seed,
\* displacements, entries and idxs unchanged, and with them the outcome of
\* every query; the table kept from an earlier construction never changes,
\* not even while the next one is built.
C5_QueryFrame ==
    /\ (pc = "built" /\ pc' = "built") =>
           /\ Fields(table') = Fields(table)
           /\ siphash' = siphash
           /\ \A k \in universe :
                  /\ find(table', siphash', k) = find(table, siphash, k)
                  /\ index(table', siphash', k) = index(table, siphash, k)
                  /\ find_key(table', siphash', k) = find_key(table, siphash, k)
           /\ Elements(table') = Elements(table)
    /\ other.built =>
           /\ other'.built
           /\ Fields(other') = Fields(other)
           /\ other'.sip = other.sip

C5_ReadOnly == [][C5_QueryFrame]_vars

C5_Witness ==
    /\ Built
    /\ other.built
    /\ Len(other.entries) = 2
    /\ Len(table.entries) = 1
    /\ last.op = "index"
    /\ last.out = Fail(InvalidKey)

\* The elements of a set, as a list.
ElementList(t) == [i \in 1..Len(t.entries) |-> t.entries[i].key]

\* The brute-force double loop over two element lists.
BruteDisjoint(xs, ys) ==
    \A i \in 1..Len(xs) : \A j \in 1..Len(ys) : xs[i] # ys[j]

BruteSubset(xs, ys) ==
    \A i \in 1..Len(xs) : \E j \in 1..Len(ys) : xs[i] = ys[j]

\* The two sets of the last set query.
LastA == IF last.key = "table,other" THEN table ELSE other

LastB == IF last.key = "table,other" THEN other ELSE table

\* C8 (set algebra), as claimed: for every pair of built sets of the same
\* variant, either of which may be empty, is_disjoint and is_subset return
\* what the brute-force double loop over the two element lists returns.
C8_SetAlgebra ==
    /\ (Built /\ last.op = "is_disjoint") =>
           last.out = Return(BruteDisjoint(ElementList(LastA), ElementList(LastB)))
    /\ (Built /\ last.op = "is_subset") =>
           last.out = Return(BruteSubset(ElementList(LastA), ElementList(LastB)))

\* The entries, keys and values of the definition, in definition order.
Defined(kind) ==
    [i \in 1..Len(input) |->
        CASE kind = "entries" -> input[i]
          [] kind = "keys"    -> input[i].key
          [] kind = "values"  -> input[i].val]

\* C6 (order fidelity): in every order-preserving table, forward iteration
\* of entries, keys and values yields exactly N elements, the i-th being the
\* i-th entry of the definition (its key, its value).
C6_OrderFidelity ==
    (Built /\ orderPreserving) =>
        /\ \A kind \in {"entries", "keys", "values"} :
               Drain(table, NewIter(table, kind)) = Defined(kind)
        /\ iter # NoIter =>
               /\ iter.yielded = SubSeq(Defined(iter.kind), 1, iter.front)
               /\ iter.out = None => iter.yielded = Defined(iter.kind)

C6_Witness ==
    /\ Built
    /\ orderPreserving
    /\ Len(input) = 3
    /\ table.idxs # <<0, 1, 2>>
    /\ iter # NoIter
    /\ iter.kind = "keys"
    /\ iter.out = None
    /\ iter.yielded = Defined("keys")

\* C7 (size): in every built table, len equals the number of distinct
\* entries given to the builder, the number of elements a full iteration
\* yields, and the number of distinct keys that contains_key finds.
C7_Size ==
    Built =>
        /\ len(table) = Len(input)
        /\ len(table) = Cardinality(InputKeys)
        /\ \A kind \in {"entries", "keys", "values"} :
               Len(Drain(table, NewIter(table, kind))) = len(table)
        /\ Cardinality({k \in universe : contains_key(table, siphash, k) = Return(TRUE)})
               = len(table)
        /\ last.op = "len" => last.out = Len(input)
        /\ (iter # NoIter /\ iter.out = None) => Len(iter.yielded) = len(table)

C7_Witness ==
    /\ Built
    /\ last.op = "len"
    /\ last.out = 3
    /\ Len(table.disps) = 2

\* C9 (interning): in every built table and for every key, find_key is
\* present exactly when find and contains_key report the key present, and
\* the key it returns is the one stored in the table's entries, equal to the
\* query key, not the caller's instance.
C9_Interning ==
    Built =>
        \A k \in universe :
            LET fk == find_key(table, siphash, k)
            IN  /\ (fk.kind = "Some") <=> (contains_key(table, siphash, k) = Return(TRUE))
                /\ (fk.kind = "Some") <=> (find(table, siphash, k).kind = "Some")
                /\ fk.kind = "Some" =>
                       /\ fk.val.at[1] = "entries"
                       /\ fk.val.s = k
                       /\ table.entries[fk.val.at[2] + 1].key = k
                /\ (last.op = "find_key" /\ last.key = k) => last.out = fk

C9_Witness ==
    /\ Built
    /\ ~orderPreserving
    /\ Len(input) = 2
    /\ last.op = "find_key"
    /\ last.out.kind = "Some"
    /\ last.out.val.at = <<"entries", 1>>
    /\ last.out.val.s = last.key

\* C10 (injectivity): in every emitted table the slots of the N constructed
\* keys, as the lookup path computes them, are pairwise distinct and cover
\* [0, N); during construction a slot marked occupied keeps its entry and no
\* entry holds two slots.
C10_SlotsInjective ==
    Built =>
        /\ \A i, j \in 1..Len(input) :
               i # j => SlotOf(table, siphash, input[i].key)
                          # SlotOf(table, siphash, input[j].key)
        /\ {SlotOf(table, siphash, k) : k \in InputKeys} = 0..(Len(input) - 1)

C10_NoSlotReassigned ==
    (pc = "place" /\ pc' \in {"place", "built"}) =>
        /\ \A s \in 1..Len(map) : map[s] # Free => map'[s] = map[s]
        /\ \A s, r \in 1..Len(map) :
               (s # r /\ map'[s] # Free) => map'[s] # map'[r]

C10_Injectivity == [] C10_SlotsInjective /\ [][C10_NoSlotReassigned]_vars

C10_Witness ==
    /\ Built
    /\ Len(input) = 3
    /\ table.disps[1] # <<0, 0>>
    /\ table.disps[2] # <<0, 0>>

\* ------------------------------------------------------------------------
\* Construction

\* Two entries of the definition have equal keys.
RepeatsKey == Cardinality(InputKeys) < Len(input)

\* C11 (duplicate keys): a construction whose input repeats a key stops
\* with DuplicateKey, emits no table, and gets there with no digest revealed,
\* no attempt counted and no seed picked; a construction whose keys are
\* pairwise distinct never reports DuplicateKey.
C11_DuplicateKey ==
    /\ RepeatsKey =>
           /\ pc \in {"start", "DuplicateKey"}
           /\ table = NoTable
           /\ siphash = <<>>
           /\ attempt = 0
           /\ seed = 0
    /\ ~RepeatsKey => pc # "DuplicateKey"

C11_Witness ==
    /\ pc = "DuplicateKey"
    /\ Len(input) = 3
    /\ input[1].key = input[3].key
    /\ input[2].key # input[1].key
    /\ siphash = <<>>
    /\ table = NoTable

\* Construction has stopped.
Stopped == pc \in {"built", "DuplicateKey", "ConstructionFailed"}

C12_WithinBounds ==
    /\ attempt <= MaxAttempts
    /\ pc = "ConstructionFailed" => (attempt = MaxAttempts /\ table = NoTable)
    /\ \A b \in 1..Len(disps) :
           /\ disps[b][1] \in 0..(SearchBudget(N) - 1)
           /\ disps[b][2] \in 0..(SearchBudget(N) - 1)

\* C12 (bounded construction): every construction eventually stops; one
\* whose keys are pairwise distinct stops with a table emitted or with
\* ConstructionFailed.  The attempts never exceed MaxAttempts, every
\* recorded displacement pair lies within the per-bucket search budget, and
\* ConstructionFailed is reported only in attempt number MaxAttempts.
C12_BoundedConstruction ==
    /\ <>Stopped
    /\ ~RepeatsKey => <>(pc \in {"built", "ConstructionFailed"})
    /\ []C12_WithinBounds

C12_Witness ==
    /\ pc = "ConstructionFailed"
    /\ attempt = MaxAttempts
    /\ Len(input) = 3
    /\ ~RepeatsKey

\* A bucket exhausted its budget: the attempt is discarded, the next one
\* has a new seed.
C13_Discard ==
    (pc = "place" /\ pc' = "hash") =>
        /\ attempt' = attempt + 1
        /\ seed' # seed
        /\ table' = NoTable

\* An attempt starts with every slot free and no displacement pair recorded.
C13_FreshAttempt ==
    (pc = "hash" /\ pc' = "place") =>
        /\ map' = [s \in 1..N |-> Free]
        /\ disps' = [b \in 1..NumBuckets(N) |-> <<0, 0>>]
        /\ bi' = 1

\* A table is emitted only by an attempt that placed every bucket.
C13_EmitWhole ==
    (table' # table) =>
        /\ table = NoTable
        /\ pc = "place"
        /\ bi > NumBuckets(N)
        /\ \A s \in 1..N : map[s] # Free
        /\ table'.key = seed

\* Every entry of an emitted table sits in the slot its key has under the
\* table's one seed; a construction that failed has no table.
C13_OneSeed ==
    /\ table # NoTable =>
           /\ pc = "built"
           /\ table.key = seed
           /\ Len(table.entries) = N
           /\ \A i \in 1..N : map[SlotOf(table, siphash, input[i].key) + 1] = i - 1
    /\ pc \in {"DuplicateKey", "ConstructionFailed"} => table = NoTable

\* C13 (all-or-nothing construction): a bucket that exhausts its budget
\* discards the whole attempt; the next attempt has a new seed, an all-free
\* slot marker and no recorded pairs; every emitted table has all N entries
\* placed under one seed, and no failed or partial attempt emits a table.
C13_AllOrNothing ==
    /\ []C13_OneSeed
    /\ [][C13_Discard /\ C13_FreshAttempt /\ C13_EmitWhole]_vars

\* A partially completed attempt has just been discarded.
C13_Witness ==
    /\ pc = "hash"
    /\ attempt = 2
    /\ seed = NextSeed(FirstSeed)
    /\ \E s \in 1..Len(map) : map[s] # Free
    /\ \E s \in 1..Len(map) : map[s] = Free
    /\ table = NoTable

\* ------------------------------------------------------------------------
\* Concurrent reads

\* What each reader has got so far is what the operation gives on its own.
C14_AsAlone ==
    pc = "built" =>
        \A t \in DOMAIN threads :
            LET th == threads[t]
            IN  /\ (th.op = "contains" /\ th.step = "done") =>
                       th.out = contains_key(table, siphash, th.key)
                /\ (th.op = "is_subset" /\ th.step = "done") =>
                       th.out = is_subset(table, table, siphash)
                /\ (th.op = "is_disjoint" /\ th.step = "done") =>
                       th.out = is_disjoint(table, table, siphash)
                /\ th.op = "iter" =>
                       /\ th.it.yielded =
                              SubSeq(Elements(table), 1, th.it.front)
                       /\ th.it.out = None => th.it.yielded = Elements(table)

C14_TableSame ==
    pc = "built" => (table' = table /\ siphash' = siphash /\ pc' = "built")

\* C14 (concurrent reads): with several readers on one built table, no
\* lock, and their steps interleaved in any order, every contains,
\* is_subset, is_disjoint and iteration returns what it returns when run
\* alone, and no step changes the table.
C14_ConcurrentReads == []C14_AsAlone /\ [][C14_TableSame]_vars

\* One reader is between the two reads of a lookup of one element while
\* another has finished the lookup of the other element of the set.
C14_Witness ==
    /\ pc = "built"
    /\ Len(table.entries) = 2
    /\ threads[1].op = "contains"
    /\ threads[1].step = "displaced"
    /\ threads[2].op = "contains"
    /\ threads[2].step = "done"
    /\ threads[2].key # threads[1].key
    /\ threads[2].out = Return(TRUE)

\* ------------------------------------------------------------------------
\* Hash triple

\* Bit i of a digest.
Bit(h, i) == (h[(i \div WordBits) + 1] \div 2 ^ (i % WordBits)) % 2

\* The number written by the n bits of a digest from bit lo upwards.
RECURSIVE Window(_, _, _)
Window(h, lo, n) ==
    IF n = 0 THEN 0 ELSE Bit(h, lo) + 2 * Window(h, lo + 1, n - 1)

C15_Windows ==
    last.op = "phf_hash" =>
        LET h == siphash[last.key]
            t == last.out
        IN  /\ t.g >= 0 /\ t.g < MAX_SIZE
            /\ t.f1 >= 0 /\ t.f1 < MAX_SIZE
            /\ t.f2 >= 0 /\ t.f2 < MAX_SIZE
            /\ t.g = Window(h, 0, LOG_MAX_SIZE)
            /\ t.f1 = Window(h, LOG_MAX_SIZE, LOG_MAX_SIZE)
            /\ t.f2 = Window(h, 2 * LOG_MAX_SIZE, LOG_MAX_SIZE)

C15_SameTriple ==
    (last.op = "phf_hash" /\ last'.op = "phf_hash" /\ last'.key = last.key)
        => last'.out = last.out

\* C15 (hash triple range): for every digest, the triple hash returns has
\* each component in [0, 2^21), g being bits 0-20, f1 bits 21-41 and f2 bits
\* 42-62 of the digest (bit 63 is in none); hashing the same key under the
\* same seed again returns the same triple.
C15_HashTripleRange == []C15_Windows /\ [][C15_SameTriple]_vars

C15_Witness ==
    /\ last.op = "phf_hash"
    /\ last.calls = 2
    /\ siphash[last.key] = <<0, 32, 32768, 32768>>
    /\ last.out = [g |-> 0, f1 |-> 1, f2 |-> 32]

\* ------------------------------------------------------------------------
\* Displacement arithmetic

\* (d2 + f1 * d1 + f2) mod n, the sum taken in the integers (n below 2^15).
MathSlot(f1, f2, d1, d2, n) ==
    ((d2 % n) + (((f1 % n) * (d1 % n)) % n) + (f2 % n)) % n

\* Exact sums of naturals written [hi, lo] for hi * 2^16 + lo.
Plus(x, y) ==
    [lo |-> (x.lo + y.lo) % WordSize,
     hi |-> x.hi + y.hi + (x.lo + y.lo) \div WordSize]

Nat16(x) == [lo |-> x % WordSize, hi |-> x \div WordSize]

\* x * m by doubling.
RECURSIVE Times(_, _)
Times(x, m) ==
    IF m = 0 THEN Nat16(0)
    ELSE LET t == Times(x, m \div 2)
         IN  IF m % 2 = 1 THEN Plus(Plus(t, t), x) ELSE Plus(t, t)

\* How many times 2^32 goes into d2 + f1 * d1 + f2.
Wraps(f1, f2, d1, d2) ==
    Plus(Plus(Times(Nat16(f1), d1), Nat16(d2)), Nat16(f2)).hi \div WordSize

\* 2^32 mod n.
Pow32Mod(n) == ((WordSize % n) * (WordSize % n)) % n

C17_OrderedIndirection ==
    (Built /\ orderPreserving) =>
        /\ table.ordered
        /\ Len(table.idxs) = Len(table.entries)
        /\ Len(table.entries) = Len(input)
        /\ {table.idxs[s] : s \in 1..Len(table.idxs)} = 0..(Len(input) - 1)
        /\ \A k \in universe :
               find_entry(table, siphash, k) # Fail(OutOfBounds)
        /\ \A i \in 1..Len(input) :
               /\ table.idxs[SlotOf(table, siphash, input[i].key) + 1] = i - 1
               /\ find_entry(table, siphash, input[i].key) = Some(i - 1)
               /\ (last.op = "find_key" /\ last.key = input[i].key)
                      => last.out = Some([at |-> <<"entries", i - 1>>,
                                          s |-> input[i].key])

\* A key found at its definition position, which is not its slot.
C17_Witness ==
    /\ Built
    /\ orderPreserving
    /\ Len(input) = 3
    /\ last.op = "find_key"
    /\ \E i \in 1..3 :
           /\ last.key = input[i].key
           /\ SlotOf(table, siphash, input[i].key) # i - 1
           /\ last.out = Some([at |-> <<"entries", i - 1>>, s |-> input[i].key])

\* ------------------------------------------------------------------------
\* Ordered traversal

\* The elements of xs that are not among ys, in the order of xs.
Without(xs, ys) ==
    LET keep == {i \in 1..Len(xs) : \A j \in 1..Len(ys) : ys[j] # xs[i]}
    IN  [k \in 1..Cardinality(keep) |->
            xs[CHOOSE i \in keep : Cardinality({j \in keep : j < i}) = k - 1]]

\* The not-yet-yielded elements of an iterator over an ordered table, in
\* definition order.
NotYet(it) == Without(Defined(it.kind), it.yielded)

\* Each entry is yielded at most once, absent comes only after all N, and
\* indexable and idx answer for the not-yet-yielded entries.
C18_EachOnce ==
    (Built /\ orderPreserving /\ iter # NoIter) =>
        /\ \A i, j \in 1..Len(iter.yielded) :
               iter.yielded[i] = iter.yielded[j] => i = j
        /\ \A i \in 1..Len(iter.yielded) :
               \E j \in 1..Len(input) :
                   iter.yielded[i] = Defined(iter.kind)[j]
        /\ iter.out = None => Len(iter.yielded) = Len(input)
        /\ Len(iter.yielded) = Len(input) <=> NotYet(iter) = <<>>
        /\ last.op = "indexable" => last.out = Len(NotYet(iter))
        /\ last.op = "idx" =>
               last.out = IF last.key < Len(NotYet(iter))
                          THEN Some(NotYet(iter)[last.key + 1])
                          ELSE None

\* next yields the first not-yet-yielded entry, next_back the last one, and
\* both return absent when none is left; indexable and idx consume nothing.
C18_Step ==
    (Built /\ orderPreserving /\ iter # NoIter) =>
        LET r == NotYet(iter)
        IN  /\ IterNext =>
                   IF r = <<>>
                   THEN iter'.out = None /\ iter'.yielded = iter.yielded
                   ELSE /\ iter'.out = Some(r[1])
                        /\ iter'.yielded = Append(iter.yielded, r[1])
            /\ IterNextBack =>
                   IF r = <<>>
                   THEN iter'.out = None /\ iter'.yielded = iter.yielded
                   ELSE /\ iter'.out = Some(r[Len(r)])
                        /\ iter'.yielded = Append(iter.yielded, r[Len(r)])
            /\ (IterIdx \/ IterIndexable) => iter' = iter

\* C18 (ordered traversal from both ends): on an iterator over an
\* order-preserving table of N entries, any interleaving of next and
\* next_back yields each entry exactly once, next in definition order from
\* the front and next_back in reverse order from the back, and both return
\* absent once N elements have been yielded; idx(i) returns the i-th
\* not-yet-yielded entry in definition order for i < indexable() and absent
\* otherwise, without consuming anything.
C18_OrderedTraversal == []C18_EachOnce /\ [][C18_Step]_vars

\* One entry taken from the back, one from the front, and the one between
\* them read by idx(0).
C18_Witness ==
    /\ Built
    /\ orderPreserving
    /\ Len(input) = 3
    /\ iter # NoIter
    /\ iter.kind = "entries"
    /\ iter.yielded = <<input[3], input[1]>>
    /\ last = [op |-> "idx", key |-> 0, out |-> Some(input[2])]

\* ------------------------------------------------------------------------
\* Iteration of every variant

\* What an iterator of the kind makes of an entry.
Proj(kind, e) ==
    CASE kind = "entries" -> e
      [] kind = "keys"    -> e.key
      [] kind = "values"  -> e.val

\* An iterator never yields more than N elements, absent comes only after
\* N, size_hint is the number of elements still to come, and an iterator
\* stepped by next alone has yielded the first entries of the table, the
\* i-th key and the i-th value being those of the i-th entry.
C19_Yielded ==
    (Built /\ iter # NoIter) =>
        LET n == Len(table.entries)
        IN  /\ n = Len(input)
            /\ Len(iter.yielded) <= n
            /\ iter.out = None => Len(iter.yielded) = n
            /\ size_hint(iter) = n - Len(iter.yielded)
            /\ last.op = "size_hint" => last.out = n - Len(iter.yielded)
            /\ iter.back = n =>
                   iter.yielded = [i \in 1..Len(iter.yielded) |->
                                      Proj(iter.kind, table.entries[i])]

\* entries, keys and values return an iterator that has yielded nothing and
\* starts at the first entry, whatever iterator was held before; an
\* iterator that has returned absent returns absent again; iterating leaves
\* the table as it is.
C19_Step ==
    Built =>
        LET n == Len(table.entries)
        IN  /\ (Entries \/ KeysIter \/ Values) =>
                   /\ iter'.yielded = <<>>
                   /\ iter'.out = NoQuery
                   /\ size_hint(iter') = n
                   /\ next(table, iter').out =
                          IF n = 0 THEN None
                          ELSE Some(Proj(iter'.kind, table.entries[1]))
            /\ (iter # NoIter /\ iter.out = None
                   /\ (IterNext \/ IterNextBack)) =>
                   /\ iter'.out = None
                   /\ iter'.yielded = iter.yielded
            /\ (IterNext \/ IterNextBack \/ IterSizeHint
                   \/ Entries \/ KeysIter \/ Values) => table' = table

\* C19 (iteration is finite, restartable and repeatable): for every
\* variant, each call to entries, keys or values (a set's iter is its map's
\* keys) returns a fresh iterator that starts at the first entry regardless
\* of earlier iterators; it yields exactly N elements and then absent on
\* every later call; two full iterations of the same table yield the same
\* sequence, that of the table's entries; the i-th key and the i-th value
\* yielded belong to the i-th entry yielded; and size_hint equals the
\* number of elements still to come.
C19_Iteration == []C19_Yielded /\ [][C19_Step]_vars

\* A plain table iterated to the end and asked again, then for its size.
C19_Witness ==
    /\ Built
    /\ ~orderPreserving
    /\ Len(input) = 3
    /\ iter # NoIter
    /\ iter.kind = "values"
    /\ iter.out = None
    /\ iter.front = 3
    /\ iter.yielded = [i \in 1..3 |-> table.entries[i].val]
    /\ last = [op |-> "size_hint", key |-> "", out |-> 0]

====
